---- MODULE Spec2Model ----
(***************************************************************************)
(* Model of the two log-analysis programs of the repository:               *)
(*   Week 6/auth_scanner.py  - key=value authentication log scanner        *)
(*   Week 4/log_analyzer.py  - positional firewall log analyzer            *)
(*                                                                         *)
(* A Python str is a sequence of code points (ASCII codes here).  A dict   *)
(* (and a Counter) is a sequence of <<key, value>> pairs in insertion      *)
(* order, which is the order Python's dict iterates in.  None is the empty *)
(* sequence; an optional record r is <<r>>.                                *)
(***************************************************************************)
EXTENDS Integers, Sequences, FiniteSets, TLC

VARIABLES
    \* ---- auth_scanner.py ----
    log_exists,      \* os.path.exists(LOG_FILE)
    log,             \* the lines of LOG_FILE, as indices into AuthLines
    pc,              \* position of main(): "off", "start", "reading",
                     \* "returned", "stopped", "json_written", "done";
                     \* "read_error", "json_error", "text_error" when an
                     \* uncaught exception has left main()
    pos,             \* lines of the file consumed by `for line in f`
    failed_by_user,  \* Counter
    failed_by_ip,    \* Counter
    total_failed,
    malformed_lines,
    results,         \* return value of analyze_log_file (None or <<dict>>)
    json_report,     \* content of JSON_REPORT (None until written)
    text_report,     \* content of TEXT_REPORT (None until written)
    \* ---- log_analyzer.py ----
    lines,           \* f.readlines() of firewall.log, as indices into FwLines
    fw_pc,           \* position of __main__: "off", "start", "parsing",
                     \* "parsed", "analyzed", "displayed", "done", "aborted"
    fw_pos,          \* lines consumed by `for line in lines`
    log_entries,     \* list of entry dicts built by parse_log_file
    analysis,        \* return value of analyze_logs (None or <<dict>>)
    fw_json,         \* content of log_analysis.json (None until written)
    \* ---- detect_brute_force called on its own ----
    counter,         \* argument: a Counter
    threshold,       \* argument: an integer
    flagged          \* the returned dict (None until called)

authVars == <<log_exists, log, pc, pos, failed_by_user, failed_by_ip,
              total_failed, malformed_lines, results, json_report, text_report>>
fwVars == <<lines, fw_pc, fw_pos, log_entries, analysis, fw_json>>
detVars == <<counter, threshold, flagged>>
vars == <<authVars, fwVars, detVars>>

None == <<>>

----------------------------------------------------------------------------
(* Bounds of the model *)

\* longest enumerated auth log (the scenario logs are added to these)
MaxLines == 4
\* longest enumerated firewall log
MaxFwLines == 4
\* longest log whose every permutation is compared
MaxPermLines == 3
\* largest count of a key in a Counter handed to detect_brute_force alone
MaxCount == 3
\* the instants datetime.utcnow() may return are 1..MaxClock
MaxClock == 2

----------------------------------------------------------------------------
(* Python str *)

\* str.isspace for ASCII: \t \n \v \f \r, FS GS RS US and space
IsSpace(c) == c \in {9, 10, 11, 12, 13, 28, 29, 30, 31, 32}

\* a < b for str: lexicographic by code point
StrLess(a, b) ==
    \E k \in 1..(Len(b)) :
        /\ \A j \in 1..(k - 1) : j <= Len(a) /\ a[j] = b[j]
        /\ k - 1 <= Len(a)
        /\ (k > Len(a) \/ a[k] < b[k])

\* str.strip()
Strip(s) ==
    LET keep == {j \in 1..Len(s) : ~IsSpace(s[j])}
    IN IF keep = {} THEN <<>>
       ELSE LET lo == CHOOSE j \in keep : \A m \in keep : j <= m
                hi == CHOOSE j \in keep : \A m \in keep : m <= j
            IN SubSeq(s, lo, hi)

\* str.split(): the maximal runs of non-whitespace characters
Split(s) ==
    LET RECURSIVE go(_, _, _)
        go(j, cur, acc) ==
            IF j > Len(s)
            THEN (IF cur = <<>> THEN acc ELSE Append(acc, cur))
            ELSE IF IsSpace(s[j])
                 THEN go(j + 1, <<>>, IF cur = <<>> THEN acc ELSE Append(acc, cur))
                 ELSE go(j + 1, Append(cur, s[j]), acc)
    IN go(1, <<>>, <<>>)

\* "=" in pair
HasEq(pair) == \E j \in 1..Len(pair) : pair[j] = 61

\* pair.split("=", 1): <<text before the first "=", text after it>>
SplitEq(pair) ==
    LET at == CHOOSE j \in 1..Len(pair) :
                  pair[j] = 61 /\ \A m \in 1..(j - 1) : pair[m] # 61
    IN <<SubSeq(pair, 1, at - 1), SubSeq(pair, at + 1, Len(pair))>>

\* int(s) succeeds: optional sign, then digits with single "_" between digits
IsDigit(c) == c \in 48..57
IntParseable(s) ==
    LET body == IF Len(s) > 0 /\ s[1] \in {43, 45} THEN Tail(s) ELSE s
    IN /\ Len(body) > 0
       /\ IsDigit(body[1]) /\ IsDigit(body[Len(body)])
       /\ \A j \in 1..Len(body) :
              \/ IsDigit(body[j])
              \/ body[j] = 95 /\ IsDigit(body[j - 1]) /\ IsDigit(body[j + 1])

\* int(s) for a parseable s
IntOf(s) ==
    LET neg == Len(s) > 0 /\ s[1] = 45
        body == IF Len(s) > 0 /\ s[1] \in {43, 45} THEN Tail(s) ELSE s
        RECURSIVE val(_, _)
        val(j, acc) ==
            IF j > Len(body) THEN acc
            ELSE IF body[j] = 95 THEN val(j + 1, acc)
                 ELSE val(j + 1, acc * 10 + (body[j] - 48))
    IN IF neg THEN 0 - val(1, 0) ELSE val(1, 0)

(* Python dict: <<key, value>> pairs in insertion order *)

HasKey(d, k) == \E j \in 1..Len(d) : d[j][1] = k

\* d.get(k, default)
Get(d, k, default) ==
    IF HasKey(d, k) THEN d[CHOOSE j \in 1..Len(d) : d[j][1] = k][2] ELSE default

\* d[k] = v
Put(d, k, v) ==
    IF HasKey(d, k)
    THEN [j \in 1..Len(d) |-> IF d[j][1] = k THEN <<k, v>> ELSE d[j]]
    ELSE Append(d, <<k, v>>)

\* set(d.keys())
Keys(d) == {d[j][1] : j \in 1..Len(d)}

\* c[k] += 1 on a Counter (a missing key counts 0)
Incr(c, k) == Put(c, k, Get(c, k, 0) + 1)

----------------------------------------------------------------------------
(* String literals of the programs *)

s_timestamp == <<116, 105, 109, 101, 115, 116, 97, 109, 112>>  \* "timestamp"
s_event == <<101, 118, 101, 110, 116>>  \* "event"
s_status == <<115, 116, 97, 116, 117, 115>>  \* "status"
s_user == <<117, 115, 101, 114>>  \* "user"
s_ip == <<105, 112>>  \* "ip"
s_LOGIN == <<76, 79, 71, 73, 78>>  \* "LOGIN"
s_FAIL == <<70, 65, 73, 76>>  \* "FAIL"
s_UNKNOWN == <<85, 78, 75, 78, 79, 87, 78>>  \* "UNKNOWN"
s_ALLOW == <<65, 76, 76, 79, 87>>  \* "ALLOW"
s_DENY == <<68, 69, 78, 89>>  \* "DENY"
s_NA == <<78, 47, 65>>  \* "N/A"

\* " ".join(words) + "\n": one line of a log file as `for line in f` yields it
Line(words) ==
    LET RECURSIVE join(_)
        join(j) == IF j > Len(words) THEN <<10>>
                   ELSE (IF j = 1 THEN <<>> ELSE <<32>>) \o words[j] \o join(j + 1)
    IN join(1)

\* key + "=" + value
KV(k, v) == k \o <<61>> \o v

(* User names of the sample logs *)
alice == <<97, 108, 105, 99, 101>>  \* "alice"
bob == <<98, 111, 98>>  \* "bob"

(* The line texts the auth logs are made of *)
AuthLines ==
    LET fail == <<102, 97, 105, 108>>  \* "fail"
        carol == <<99, 97, 114, 111, 108>>  \* "carol"
        ip5 == <<49, 48, 46, 48, 46, 48, 46, 53>>  \* "10.0.0.5"
        ip9 == <<49, 48, 46, 48, 46, 48, 46, 57>>  \* "10.0.0.9"
        ip7 == <<49, 48, 46, 48, 46, 48, 46, 55>>  \* "10.0.0.7"
        retry == <<114, 101, 116, 114, 121>>  \* "retry"
        note == <<110, 111, 116, 101>>  \* "note"
        a_eq_b == <<97, 61, 98>>  \* "a=b"
        garbage == <<103, 97, 114, 98, 97, 103, 101>>  \* "garbage"
        date == <<50, 48, 50, 52, 45, 48, 51, 45, 48, 49>>  \* "2024-03-01"
        t1 == <<48, 57, 58, 48, 48, 58, 48, 49>>  \* "09:00:01"
        t2 == <<48, 57, 58, 48, 48, 58, 48, 50>>  \* "09:00:02"
        t3 == <<48, 57, 58, 48, 48, 58, 48, 51>>  \* "09:00:03"
        t4 == <<48, 57, 58, 48, 48, 58, 48, 52>>  \* "09:00:04"
    IN <<
      \* 1: a failed login of alice
      Line(<<date, t1, KV(s_event, s_LOGIN), KV(s_status, s_FAIL), KV(s_user, alice), KV(s_ip, ip5)>>),
      \* 2: a failed login of bob
      Line(<<date, t2, KV(s_event, s_LOGIN), KV(s_status, s_FAIL), KV(s_user, bob), KV(s_ip, ip9)>>),
      \* 3: a login whose status is lowercase "fail"
      Line(<<date, t3, KV(s_event, s_LOGIN), KV(s_status, fail), KV(s_user, carol), KV(s_ip, ip7)>>),
      \* 4: a failed login with no user and no ip, a token without "=" and a value holding "="
      Line(<<date, t4, KV(s_event, s_LOGIN), retry, KV(s_status, s_FAIL), KV(note, a_eq_b)>>),
      \* 5: a single token
      Line(<<garbage>>),
      \* 6: an empty line
      <<10>>,
      \* 7: a whitespace-only line
      <<32, 32, 9, 10>>,
      \* 8: "LOGIN FAIL user=alice ip=10.0.0.5", no timestamp and no event= / status= keys
      Line(<<s_LOGIN, s_FAIL, KV(s_user, alice), KV(s_ip, ip5)>>)
    >>

(* The line texts the firewall logs are made of *)
FwLines ==
    LET d15 == <<50, 48, 50, 52, 45, 48, 49, 45, 49, 53>>  \* "2024-01-15"
        d14 == <<50, 48, 50, 52, 45, 48, 49, 45, 49, 52>>  \* "2024-01-14"
        h0 == <<49, 48, 58, 48, 48, 58, 48, 48>>  \* "10:00:00"
        h5 == <<49, 48, 58, 48, 48, 58, 48, 53>>  \* "10:00:05"
        h9 == <<49, 48, 58, 48, 48, 58, 48, 57>>  \* "10:00:09"
        h23 == <<50, 51, 58, 53, 57, 58, 53, 57>>  \* "23:59:59"
        h12 == <<49, 48, 58, 48, 48, 58, 49, 50>>  \* "10:00:12"
        h15 == <<49, 48, 58, 48, 48, 58, 49, 53>>  \* "10:00:15"
        DROP == <<68, 82, 79, 80>>  \* "DROP"
        src10 == <<49, 57, 50, 46, 49, 54, 56, 46, 49, 46, 49, 48>>  \* "192.168.1.10"
        src203 == <<50, 48, 51, 46, 48, 46, 49, 49, 51, 46, 53>>  \* "203.0.113.5"
        src198 == <<49, 57, 56, 46, 53, 49, 46, 49, 48, 48, 46, 55>>  \* "198.51.100.7"
        dst == <<49, 48, 46, 48, 46, 48, 46, 49>>  \* "10.0.0.1"
        p80 == <<56, 48>>  \* "80"
        p22 == <<50, 50>>  \* "22"
        p443 == <<52, 52, 51>>  \* "443"
        p022 == <<48, 50, 50>>  \* "022"
        ssh == <<115, 115, 104>>  \* "ssh"
        tcp == <<116, 99, 112>>  \* "tcp"
    IN <<
      \* 1: ALLOW
      Line(<<d15, h0, s_ALLOW, src10, dst, p80>>),
      \* 2: DENY from 203.0.113.5 to port 22
      Line(<<d15, h5, s_DENY, src203, dst, p22>>),
      \* 3: DENY from 198.51.100.7 to port 443
      Line(<<d15, h9, s_DENY, src198, dst, p443>>),
      \* 4: an action that is neither ALLOW nor DENY, an earlier timestamp, a seventh token
      Line(<<d14, h23, DROP, src203, dst, p022, tcp>>),
      \* 5: six tokens, the port is not a number
      Line(<<d15, h12, s_DENY, src203, dst, ssh>>),
      \* 6: five tokens
      Line(<<d15, h15, s_DENY, src203, dst>>),
      \* 7: a whitespace-only line
      <<32, 9, 32, 10>>
    >>

----------------------------------------------------------------------------
(* auth_scanner.py *)

LOG_FILE == "auth_test.log"
ALERT_THRESHOLD == 5

\* parse_log_line_safe rejecting the whole line on a token without "="
\* (`return None` where the code has `continue`)
parse_log_line_safe_reject(raw) ==
    LET line == Strip(raw)
        parts == Split(line)
        RECURSIVE fields(_, _)
        fields(j, data) ==
            IF j > Len(parts) THEN data
            ELSE IF ~HasEq(parts[j]) THEN None
                 ELSE fields(j + 1, Put(data, SplitEq(parts[j])[1], SplitEq(parts[j])[2]))
    IN IF line = <<>> THEN None
       ELSE IF Len(parts) < 2 THEN None
            ELSE fields(3, <<<<s_timestamp, parts[1] \o <<32>> \o parts[2]>>>>)

\* parse_log_line_safe(line): None, or the dict of the line's fields
parse_log_line_safe(raw) ==
    LET line == Strip(raw)
        parts == Split(line)
        RECURSIVE fields(_, _)
        fields(j, data) ==
            IF j > Len(parts) THEN data
            ELSE IF ~HasEq(parts[j]) THEN fields(j + 1, data)
                 ELSE fields(j + 1, Put(data, SplitEq(parts[j])[1], SplitEq(parts[j])[2]))
    IN IF line = <<>> THEN None
       ELSE IF Len(parts) < 2 THEN None
            ELSE fields(3, <<<<s_timestamp, parts[1] \o <<32>> \o parts[2]>>>>)

\* is_failed_login with the status test forgotten
is_failed_login_event_only(data) ==
    Get(data, s_event, None) = s_LOGIN

\* is_failed_login(data)
is_failed_login(data) ==
    /\ Get(data, s_event, None) = s_LOGIN
    /\ Get(data, s_status, None) = s_FAIL

\* detect_brute_force with `count > threshold`
detect_brute_force_strict(c, t) ==
    LET keep(item) == item[2] > t
    IN SelectSeq(c, keep)

\* detect_brute_force(counter, threshold): a dict comprehension over counter.items()
detect_brute_force(c, t) ==
    LET keep(item) == item[2] >= t
    IN SelectSeq(c, keep)

\* most_common sorting by ascending count (`reverse=True` forgotten)
most_common_ascending(c) ==
    LET Insert(sorted, item) ==
            LET larger == {j \in 1..Len(sorted) : sorted[j][2] > item[2]}
                at == IF larger = {} THEN Len(sorted) + 1
                      ELSE CHOOSE j \in larger : \A n \in larger : j <= n
            IN SubSeq(sorted, 1, at - 1) \o <<item>> \o SubSeq(sorted, at, Len(sorted))
        RECURSIVE sort(_, _)
        sort(j, sorted) ==
            IF j > Len(c) THEN sorted ELSE sort(j + 1, Insert(sorted, c[j]))
    IN sort(1, <<>>)

\* most_common as sorted(items, key=count)[::-1]: reversing the ascending
\* sort also reverses the order of the entries of equal count
most_common_reversed(c) ==
    LET Insert(sorted, item) ==
            LET notlarger == {j \in 1..Len(sorted) : sorted[j][2] <= item[2]}
                at == IF notlarger = {} THEN Len(sorted) + 1
                      ELSE CHOOSE j \in notlarger : \A m \in notlarger : j <= m
            IN SubSeq(sorted, 1, at - 1) \o <<item>> \o SubSeq(sorted, at, Len(sorted))
        RECURSIVE sort(_, _)
        sort(j, sorted) ==
            IF j > Len(c) THEN sorted ELSE sort(j + 1, Insert(sorted, c[j]))
    IN sort(1, <<>>)

\* Counter.most_common(): sorted(items, key=count, reverse=True), a stable sort
most_common(c) ==
    LET Insert(sorted, item) ==
            LET smaller == {j \in 1..Len(sorted) : sorted[j][2] < item[2]}
                at == IF smaller = {} THEN Len(sorted) + 1
                      ELSE CHOOSE j \in smaller : \A m \in smaller : j <= m
            IN SubSeq(sorted, 1, at - 1) \o <<item>> \o SubSeq(sorted, at, Len(sorted))
        RECURSIVE sort(_, _)
        sort(j, sorted) ==
            IF j > Len(c) THEN sorted ELSE sort(j + 1, Insert(sorted, c[j]))
    IN sort(1, <<>>)

\* parse_log_line_safe of every line text (evaluated once)
AuthData == [n \in DOMAIN AuthLines |-> parse_log_line_safe(AuthLines[n])]

\* analyze_line with `failed_by_user[...] = 1` for `+= 1`
analyze_line_assign(acc, data) ==
    IF data = None
    THEN [acc EXCEPT !.malformed_lines = @ + 1]
    ELSE IF is_failed_login(data)
         THEN [acc EXCEPT !.total_failed = @ + 1,
                          !.failed_by_user = Put(@, Get(data, s_user, s_UNKNOWN), 1),
                          !.failed_by_ip = Incr(@, Get(data, s_ip, s_UNKNOWN))]
         ELSE acc

\* analyze_line with `malformed_lines += 1` forgotten
analyze_line_uncounted(acc, data) ==
    IF data = None
    THEN acc
    ELSE IF is_failed_login(data)
         THEN [acc EXCEPT !.total_failed = @ + 1,
                          !.failed_by_user = Incr(@, Get(data, s_user, s_UNKNOWN)),
                          !.failed_by_ip = Incr(@, Get(data, s_ip, s_UNKNOWN))]
         ELSE acc

\* analyze_log_file counting the user and the ip only when the line has them
\* (data["user"] guarded by `if "user" in data` in place of the "UNKNOWN" default)
analyze_line_no_default(acc, data) ==
    IF data = None
    THEN [acc EXCEPT !.malformed_lines = @ + 1]
    ELSE IF is_failed_login(data)
         THEN [acc EXCEPT !.total_failed = @ + 1,
                          !.failed_by_user =
                              IF HasKey(data, s_user) THEN Incr(@, Get(data, s_user, s_UNKNOWN))
                              ELSE @,
                          !.failed_by_ip =
                              IF HasKey(data, s_ip) THEN Incr(@, Get(data, s_ip, s_UNKNOWN))
                              ELSE @]
         ELSE acc

\* analyze_log_file, the body of `for line in f` after the line is parsed:
\* the counters acc after a line whose parse is data
analyze_line(acc, data) ==
    IF data = None
    THEN [acc EXCEPT !.malformed_lines = @ + 1]
    ELSE IF is_failed_login(data)
         THEN [acc EXCEPT !.total_failed = @ + 1,
                          !.failed_by_user = Incr(@, Get(data, s_user, s_UNKNOWN)),
                          !.failed_by_ip = Incr(@, Get(data, s_ip, s_UNKNOWN))]
         ELSE acc

\* analyze_log_file(file_path) on a file that exists and holds the lines f
analyze_log_file(f) ==
    LET RECURSIVE loop(_, _)
        loop(j, acc) ==
            IF j > Len(f) THEN acc ELSE loop(j + 1, analyze_line(acc, AuthData[f[j]]))
    IN loop(1, [total_failed |-> 0, failed_by_user |-> <<>>,
                failed_by_ip |-> <<>>, malformed_lines |-> 0])

\* analyze_log_file returning the zeroed results instead of None for a missing file
OpenMissing_zeroed ==
    /\ pc = "start"
    /\ ~log_exists
    /\ results' = <<[total_failed |-> 0, failed_by_user |-> <<>>,
                     failed_by_ip |-> <<>>, malformed_lines |-> 0]>>
    /\ pc' = "returned"
    /\ UNCHANGED <<log_exists, log, pos, failed_by_user, failed_by_ip, total_failed,
                   malformed_lines, json_report, text_report>>
    /\ UNCHANGED <<fwVars, detVars>>

\* analyze_log_file: os.path.exists(file_path) is false
OpenMissing ==
    /\ pc = "start"
    /\ ~log_exists
    /\ results' = None
    /\ pc' = "returned"
    /\ UNCHANGED <<log_exists, log, pos, failed_by_user, failed_by_ip, total_failed,
                   malformed_lines, json_report, text_report>>
    /\ UNCHANGED <<fwVars, detVars>>

\* analyze_log_file: open(file_path, "r")
OpenLog ==
    /\ pc = "start"
    /\ log_exists
    /\ pc' = "reading"
    /\ UNCHANGED <<log_exists, log, pos, failed_by_user, failed_by_ip, total_failed,
                   malformed_lines, results, json_report, text_report>>
    /\ UNCHANGED <<fwVars, detVars>>

\* analyze_log_file: one iteration of `for line in f`
ReadLine ==
    /\ pc = "reading"
    /\ pos < Len(log)
    /\ pos' = pos + 1
    /\ LET data == AuthData[log[pos + 1]]
           after == analyze_line([total_failed |-> total_failed,
                                  failed_by_user |-> failed_by_user,
                                  failed_by_ip |-> failed_by_ip,
                                  malformed_lines |-> malformed_lines], data)
       IN /\ total_failed' = after.total_failed
          /\ failed_by_user' = after.failed_by_user
          /\ failed_by_ip' = after.failed_by_ip
          /\ malformed_lines' = after.malformed_lines
    /\ UNCHANGED <<log_exists, log, pc, results, json_report, text_report>>
    /\ UNCHANGED <<fwVars, detVars>>

\* analyze_log_file: `for line in f` raises (OSError, UnicodeDecodeError) on
\* reading the next line; nothing catches it, so it leaves main()
ReadError ==
    /\ pc = "reading"
    /\ pos < Len(log)
    /\ pc' = "read_error"
    /\ UNCHANGED <<log_exists, log, pos, failed_by_user, failed_by_ip, total_failed,
                   malformed_lines, results, json_report, text_report>>
    /\ UNCHANGED <<fwVars, detVars>>

\* analyze_log_file with the `return` indented into the loop body: the results
\* are returned after a line was read, whatever is left of the file
ReturnResults_in_loop ==
    /\ pc = "reading"
    /\ pos = Len(log) \/ pos >= 1
    /\ results' = <<[total_failed |-> total_failed,
                     failed_by_user |-> failed_by_user,
                     failed_by_ip |-> failed_by_ip,
                     malformed_lines |-> malformed_lines]>>
    /\ pc' = "returned"
    /\ UNCHANGED <<log_exists, log, pos, failed_by_user, failed_by_ip, total_failed,
                   malformed_lines, json_report, text_report>>
    /\ UNCHANGED <<fwVars, detVars>>

\* analyze_log_file: the file is exhausted, the results dict is returned
ReturnResults ==
    /\ pc = "reading"
    /\ pos = Len(log)
    /\ results' = <<[total_failed |-> total_failed,
                     failed_by_user |-> failed_by_user,
                     failed_by_ip |-> failed_by_ip,
                     malformed_lines |-> malformed_lines]>>
    /\ pc' = "returned"
    /\ UNCHANGED <<log_exists, log, pos, failed_by_user, failed_by_ip, total_failed,
                   malformed_lines, json_report, text_report>>
    /\ UNCHANGED <<fwVars, detVars>>

\* main: `if not results: return`
MainStop ==
    /\ pc = "returned"
    /\ results = None
    /\ pc' = "stopped"
    /\ UNCHANGED <<log_exists, log, pos, failed_by_user, failed_by_ip, total_failed,
                   malformed_lines, results, json_report, text_report>>
    /\ UNCHANGED <<fwVars, detVars>>

\* generate_json_report with json.dump(report, f, indent=2, sort_keys=True)
GenerateJsonReport_sort_keys ==
    LET Insert(sorted, item) ==
            LET later == {j \in 1..Len(sorted) : StrLess(item[1], sorted[j][1])}
                at == IF later = {} THEN Len(sorted) + 1
                      ELSE CHOOSE j \in later : \A n \in later : j <= n
            IN SubSeq(sorted, 1, at - 1) \o <<item>> \o SubSeq(sorted, at, Len(sorted))
        RECURSIVE sort(_, _, _)
        sort(d, j, sorted) ==
            IF j > Len(d) THEN sorted ELSE sort(d, j + 1, Insert(sorted, d[j]))
        by_key(d) == sort(d, 1, <<>>)
    IN
    /\ pc = "returned"
    /\ results # None
    /\ \E now \in 1..MaxClock : json_report' =
           <<[report_generated_utc |-> now,
              log_file |-> LOG_FILE,
              summary |-> [total_failed_logins |-> results[1].total_failed,
                           malformed_lines |-> results[1].malformed_lines],
              failures_by_user |-> by_key(results[1].failed_by_user),
              failures_by_ip |-> by_key(results[1].failed_by_ip),
              suspected_bruteforce_users |->
                  by_key(detect_brute_force(results[1].failed_by_user, ALERT_THRESHOLD)),
              suspected_bruteforce_ips |->
                  by_key(detect_brute_force(results[1].failed_by_ip, ALERT_THRESHOLD))]>>
    /\ pc' = "json_written"
    /\ UNCHANGED <<log_exists, log, pos, failed_by_user, failed_by_ip, total_failed,
                   malformed_lines, results, text_report>>
    /\ UNCHANGED <<fwVars, detVars>>

\* generate_json_report(results)
GenerateJsonReport ==
    /\ pc = "returned"
    /\ results # None
    /\ \E now \in 1..MaxClock : json_report' =
           <<[report_generated_utc |-> now,
              log_file |-> LOG_FILE,
              summary |-> [total_failed_logins |-> results[1].total_failed,
                           malformed_lines |-> results[1].malformed_lines],
              failures_by_user |-> results[1].failed_by_user,
              failures_by_ip |-> results[1].failed_by_ip,
              suspected_bruteforce_users |->
                  detect_brute_force(results[1].failed_by_user, ALERT_THRESHOLD),
              suspected_bruteforce_ips |->
                  detect_brute_force(results[1].failed_by_ip, ALERT_THRESHOLD)]>>
    /\ pc' = "json_written"
    /\ UNCHANGED <<log_exists, log, pos, failed_by_user, failed_by_ip, total_failed,
                   malformed_lines, results, text_report>>
    /\ UNCHANGED <<fwVars, detVars>>

\* generate_json_report: open(JSON_REPORT, "w") raises OSError; nothing catches
\* it, so it leaves main() before generate_text_report is called
JsonWriteError ==
    /\ pc = "returned"
    /\ results # None
    /\ pc' = "json_error"
    /\ UNCHANGED <<log_exists, log, pos, failed_by_user, failed_by_ip, total_failed,
                   malformed_lines, results, json_report, text_report>>
    /\ UNCHANGED <<fwVars, detVars>>

\* generate_text_report: open(TEXT_REPORT, "w") raises OSError; nothing catches
\* it, so it leaves main()
TextWriteError ==
    /\ pc = "json_written"
    /\ pc' = "text_error"
    /\ UNCHANGED <<log_exists, log, pos, failed_by_user, failed_by_ip, total_failed,
                   malformed_lines, results, json_report, text_report>>
    /\ UNCHANGED <<fwVars, detVars>>

\* generate_text_report printing results['malformed_lines'] as the total of
\* failed logins
GenerateTextReport_wrong_total ==
    /\ pc = "json_written"
    /\ text_report' =
           <<[log_file |-> LOG_FILE,
              total_failed |-> results[1].malformed_lines,
              malformed_lines |-> results[1].malformed_lines,
              users |-> most_common(results[1].failed_by_user),
              ips |-> most_common(results[1].failed_by_ip),
              threshold |-> ALERT_THRESHOLD]>>
    /\ pc' = "done"
    /\ UNCHANGED <<log_exists, log, pos, failed_by_user, failed_by_ip, total_failed,
                   malformed_lines, results, json_report>>
    /\ UNCHANGED <<fwVars, detVars>>

\* generate_text_report(results)
GenerateTextReport ==
    /\ pc = "json_written"
    /\ text_report' =
           <<[log_file |-> LOG_FILE,
              total_failed |-> results[1].total_failed,
              malformed_lines |-> results[1].malformed_lines,
              users |-> most_common(results[1].failed_by_user),
              ips |-> most_common(results[1].failed_by_ip),
              threshold |-> ALERT_THRESHOLD]>>
    /\ pc' = "done"
    /\ UNCHANGED <<log_exists, log, pos, failed_by_user, failed_by_ip, total_failed,
                   malformed_lines, results, json_report>>
    /\ UNCHANGED <<fwVars, detVars>>

AuthNext ==
    \/ OpenMissing
    \/ OpenLog
    \/ ReadLine
    \/ ReadError
    \/ ReturnResults
    \/ MainStop
    \/ GenerateJsonReport
    \/ JsonWriteError
    \/ GenerateTextReport
    \/ TextWriteError

----------------------------------------------------------------------------
(* log_analyzer.py *)

\* sorted(list(s)) for a set of str
sorted_strs(s) ==
    LET RECURSIVE asc(_)
        asc(rest) ==
            IF rest = {} THEN <<>>
            ELSE LET least == CHOOSE x \in rest : \A y \in rest \ {x} : StrLess(x, y)
                 IN <<least>> \o asc(rest \ {least})
    IN asc(s)

\* parse_log_file, the body of `for line in lines` for one line:
\* [raises |-> int(parts[5]) raises ValueError, entry |-> None or <<the entry appended>>]
parse_line(raw) ==
    LET parts == Split(Strip(raw))
    IN IF Strip(raw) = <<>> THEN [raises |-> FALSE, entry |-> None]
       ELSE IF Len(parts) >= 6
            THEN IF IntParseable(parts[6])
                 THEN [raises |-> FALSE,
                       entry |-> <<[date |-> parts[1], time |-> parts[2],
                                    action |-> parts[3], source_ip |-> parts[4],
                                    dest_ip |-> parts[5], port |-> IntOf(parts[6])]>>]
                 ELSE [raises |-> TRUE, entry |-> None]
            ELSE [raises |-> FALSE, entry |-> None]

\* parse_line of every line text (evaluated once)
FwParsed == [n \in DOMAIN FwLines |-> parse_line(FwLines[n])]

\* parse_log_file(filename) on a file holding the lines f:
\* [raised |-> a ValueError left the function, entries |-> log_entries]
parse_log_file(f) ==
    LET RECURSIVE loop(_, _)
        loop(j, entries) ==
            IF j > Len(f) THEN [raised |-> FALSE, entries |-> entries]
            ELSE IF FwParsed[f[j]].raises THEN [raised |-> TRUE, entries |-> entries]
                 ELSE loop(j + 1, entries \o FwParsed[f[j]].entry)
    IN loop(1, <<>>)

\* count_actions with `else:` for `elif entry['action'] == 'DENY':`
count_actions_else(entries) ==
    LET RECURSIVE loop(_, _)
        loop(j, acc) ==
            IF j > Len(entries) THEN acc
            ELSE LET entry == entries[j]
                     counted ==
                         IF entry.action = s_ALLOW
                         THEN [acc EXCEPT !.allow_count = @ + 1]
                         ELSE [acc EXCEPT !.deny_count = @ + 1,
                                          !.denied_ips = @ \cup {entry.source_ip},
                                          !.denied_ports = Append(@, entry.port)]
                 IN loop(j + 1, [counted EXCEPT !.timestamps =
                                     Append(@, entry.date \o <<32>> \o entry.time)])
    IN loop(1, [allow_count |-> 0, deny_count |-> 0, denied_ips |-> {},
                denied_ports |-> <<>>, timestamps |-> <<>>])

\* the loop of analyze_logs with timestamps.append indented into the ALLOW and
\* DENY branches
count_actions_stamp_in_branch(entries) ==
    LET RECURSIVE loop(_, _)
        loop(j, acc) ==
            IF j > Len(entries) THEN acc
            ELSE LET entry == entries[j]
                     stamp == entry.date \o <<32>> \o entry.time
                 IN loop(j + 1,
                         IF entry.action = s_ALLOW
                         THEN [acc EXCEPT !.allow_count = @ + 1,
                                          !.timestamps = Append(@, stamp)]
                         ELSE IF entry.action = s_DENY
                              THEN [acc EXCEPT !.deny_count = @ + 1,
                                               !.denied_ips = @ \cup {entry.source_ip},
                                               !.denied_ports = Append(@, entry.port),
                                               !.timestamps = Append(@, stamp)]
                              ELSE acc)
    IN loop(1, [allow_count |-> 0, deny_count |-> 0, denied_ips |-> {},
                denied_ports |-> <<>>, timestamps |-> <<>>])

\* analyze_logs, `for entry in log_entries`: the counts, the set of denied
\* source IPs, the list of denied ports and the list of timestamps
count_actions(entries) ==
    LET RECURSIVE loop(_, _)
        loop(j, acc) ==
            IF j > Len(entries) THEN acc
            ELSE LET entry == entries[j]
                     counted ==
                         IF entry.action = s_ALLOW
                         THEN [acc EXCEPT !.allow_count = @ + 1]
                         ELSE IF entry.action = s_DENY
                              THEN [acc EXCEPT !.deny_count = @ + 1,
                                               !.denied_ips = @ \cup {entry.source_ip},
                                               !.denied_ports = Append(@, entry.port)]
                              ELSE acc
                 IN loop(j + 1, [counted EXCEPT !.timestamps =
                                     Append(@, entry.date \o <<32>> \o entry.time)])
    IN loop(1, [allow_count |-> 0, deny_count |-> 0, denied_ips |-> {},
                denied_ports |-> <<>>, timestamps |-> <<>>])

\* analyze_logs with denied_ips kept as a list of first occurrences and
\* `sorted` forgotten
analyze_logs_unsorted(entries) ==
    LET final == count_actions(entries)
        RECURSIVE count(_, _)
        count(j, c) ==
            IF j > Len(final.denied_ports) THEN c
            ELSE count(j + 1, Incr(c, final.denied_ports[j]))
        port_counter == count(1, <<>>)
        top == most_common(port_counter)
        RECURSIVE seen(_, _)
        seen(j, ips) ==
            IF j > Len(entries) THEN ips
            ELSE IF entries[j].action = s_DENY
                    /\ \A n \in 1..Len(ips) : ips[n] # entries[j].source_ip
                 THEN seen(j + 1, Append(ips, entries[j].source_ip))
                 ELSE seen(j + 1, ips)
    IN [total_entries |-> Len(entries),
        allow_count |-> final.allow_count,
        deny_count |-> final.deny_count,
        denied_source_ips |-> seen(1, <<>>),
        most_targeted_port |-> IF port_counter # <<>> THEN <<top[1][1]>> ELSE None,
        most_targeted_count |-> IF port_counter # <<>> THEN top[1][2] ELSE 0,
        time_range |->
            [first |-> IF final.timestamps # <<>> THEN Head(final.timestamps) ELSE s_NA,
             last |-> IF final.timestamps # <<>>
                      THEN final.timestamps[Len(final.timestamps)] ELSE s_NA]]

\* analyze_logs(log_entries)
analyze_logs(entries) ==
    LET final == count_actions(entries)
        RECURSIVE count(_, _)
        count(j, c) ==
            IF j > Len(final.denied_ports) THEN c
            ELSE count(j + 1, Incr(c, final.denied_ports[j]))
        port_counter == count(1, <<>>)
        top == most_common(port_counter)
    IN [total_entries |-> Len(entries),
        allow_count |-> final.allow_count,
        deny_count |-> final.deny_count,
        denied_source_ips |-> sorted_strs(final.denied_ips),
        most_targeted_port |-> IF port_counter # <<>> THEN <<top[1][1]>> ELSE None,
        most_targeted_count |-> IF port_counter # <<>> THEN top[1][2] ELSE 0,
        time_range |->
            [first |-> IF final.timestamps # <<>> THEN Head(final.timestamps) ELSE s_NA,
             last |-> IF final.timestamps # <<>>
                      THEN final.timestamps[Len(final.timestamps)] ELSE s_NA]]

\* parse_log_file: open(filename, "r") and f.readlines()
ReadLines ==
    /\ fw_pc = "start"
    /\ fw_pc' = "parsing"
    /\ UNCHANGED <<lines, fw_pos, log_entries, analysis, fw_json>>
    /\ UNCHANGED <<authVars, detVars>>

\* parse_log_file: one iteration of `for line in lines`; an uncaught ValueError
\* of int(parts[5]) ends the program
ParseLine ==
    /\ fw_pc = "parsing"
    /\ fw_pos < Len(lines)
    /\ fw_pos' = fw_pos + 1
    /\ LET out == FwParsed[lines[fw_pos + 1]]
       IN IF out.raises
          THEN /\ fw_pc' = "aborted"
               /\ UNCHANGED log_entries
          ELSE /\ log_entries' = log_entries \o out.entry
               /\ UNCHANGED fw_pc
    /\ UNCHANGED <<lines, analysis, fw_json>>
    /\ UNCHANGED <<authVars, detVars>>

\* parse_log_file: `return log_entries`
ParseReturn ==
    /\ fw_pc = "parsing"
    /\ fw_pos = Len(lines)
    /\ fw_pc' = "parsed"
    /\ UNCHANGED <<lines, fw_pos, log_entries, analysis, fw_json>>
    /\ UNCHANGED <<authVars, detVars>>

\* __main__: analysis = analyze_logs(log_entries)
AnalyzeLogs ==
    /\ fw_pc = "parsed"
    /\ analysis' = <<analyze_logs(log_entries)>>
    /\ fw_pc' = "analyzed"
    /\ UNCHANGED <<lines, fw_pos, log_entries, fw_json>>
    /\ UNCHANGED <<authVars, detVars>>

\* __main__: display_summary(analysis) prints and changes nothing
DisplaySummary ==
    /\ fw_pc = "analyzed"
    /\ fw_pc' = "displayed"
    /\ UNCHANGED <<lines, fw_pos, log_entries, analysis, fw_json>>
    /\ UNCHANGED <<authVars, detVars>>

\* __main__: save_json_report(analysis, 'log_analysis.json')
SaveJsonReport ==
    /\ fw_pc = "displayed"
    /\ fw_json' = analysis
    /\ fw_pc' = "done"
    /\ UNCHANGED <<lines, fw_pos, log_entries, analysis>>
    /\ UNCHANGED <<authVars, detVars>>

FwNext ==
    \/ ReadLines
    \/ ParseLine
    \/ ParseReturn
    \/ AnalyzeLogs
    \/ DisplaySummary
    \/ SaveJsonReport

----------------------------------------------------------------------------
(* The runs *)

\* all sequences over S of length 0..n
SeqsUpTo(S, n) == UNION {[1..k -> S] : k \in 0..n}

\* k copies of x
Repeat(x, k) == [j \in 1..k |-> x]

\* Scenario A: five, and four, failed logins of alice; the same with the lines
\* written as "LOGIN FAIL user=alice ip=10.0.0.5"; and five failed logins of
\* bob interleaved with five of alice, bob first
ScenarioLogs == {Repeat(1, 5), Repeat(1, 4), Repeat(8, 5), Repeat(8, 4),
                 <<2, 1, 2, 1, 2, 1, 2, 1, 2, 1>>}

\* Scenario B: 7 ALLOW and 3 DENY lines from 2 distinct source IPs
ScenarioB == <<1, 2, 1, 1, 3, 1, 1, 2, 1, 1>>

AuthInit ==
    /\ log_exists \in BOOLEAN
    /\ log \in (IF log_exists THEN SeqsUpTo(DOMAIN AuthLines, MaxLines) \cup ScenarioLogs
                ELSE {<<>>})
    /\ pc = "start"
    /\ pos = 0
    /\ failed_by_user = <<>>
    /\ failed_by_ip = <<>>
    /\ total_failed = 0
    /\ malformed_lines = 0
    /\ results = None
    /\ json_report = None
    /\ text_report = None

AuthOff ==
    /\ log_exists = FALSE
    /\ log = <<>>
    /\ pc = "off"
    /\ pos = 0
    /\ failed_by_user = <<>>
    /\ failed_by_ip = <<>>
    /\ total_failed = 0
    /\ malformed_lines = 0
    /\ results = None
    /\ json_report = None
    /\ text_report = None

FwInit ==
    /\ lines \in SeqsUpTo(DOMAIN FwLines, MaxFwLines) \cup {ScenarioB}
    /\ fw_pc = "start"
    /\ fw_pos = 0
    /\ log_entries = <<>>
    /\ analysis = None
    /\ fw_json = None

FwOff ==
    /\ lines = <<>>
    /\ fw_pc = "off"
    /\ fw_pos = 0
    /\ log_entries = <<>>
    /\ analysis = None
    /\ fw_json = None

DetOff ==
    /\ counter = <<>>
    /\ threshold = ALERT_THRESHOLD
    /\ flagged = None

\* the Counters handed to detect_brute_force alone: distinct keys, counts 0..MaxCount
DetKeys == {alice, bob, s_UNKNOWN}
Counters ==
    {c \in SeqsUpTo(DetKeys \X (0..MaxCount), Cardinality(DetKeys)) :
        \A j, k \in 1..Len(c) : j # k => c[j][1] # c[k][1]}

DetInit ==
    /\ counter \in Counters
    /\ threshold \in 0..(MaxCount + 1)
    /\ flagged = None

\* flagged = detect_brute_force(counter, threshold)
DetectBruteForce ==
    /\ flagged = None
    /\ flagged' = <<detect_brute_force(counter, threshold)>>
    /\ UNCHANGED <<counter, threshold>>
    /\ UNCHANGED <<authVars, fwVars>>

\* one call of detect_brute_force on any Counter and threshold
InitDetect == AuthOff /\ FwOff /\ DetInit

SpecDetect == InitDetect /\ [][DetectBruteForce]_vars

\* one run of auth_scanner.py or one run of log_analyzer.py
Init ==
    /\ \/ AuthInit /\ FwOff
       \/ AuthOff /\ FwInit
    /\ DetOff

Next == AuthNext \/ FwNext

Spec == Init /\ [][Next]_vars

----------------------------------------------------------------------------
(* What the claims speak of, read off the line texts *)

\* the blank and whitespace-only line texts
AuthBlank == {n \in DOMAIN AuthLines : \A j \in 1..Len(AuthLines[n]) : IsSpace(AuthLines[n][j])}
FwBlank == {n \in DOMAIN FwLines : \A j \in 1..Len(FwLines[n]) : IsSpace(FwLines[n][j])}

\* the firewall line texts with at least six tokens and an integer sixth token
FwWellFormed ==
    {n \in DOMAIN FwLines :
        /\ Len(Split(FwLines[n])) >= 6
        /\ IntParseable(Split(FwLines[n])[6])}

\* a log without its blank and whitespace-only lines
WithoutBlank(f, blank) ==
    LET keep(n) == n \notin blank
    IN SelectSeq(f, keep)

\* the number of positions 1..n of f whose line text is in S
CountIn(f, n, S) == Cardinality({j \in 1..n : f[j] \in S})

\* the auth line texts that parse and are not failed logins
AuthOther ==
    {n \in DOMAIN AuthLines : AuthData[n] # None /\ ~is_failed_login(AuthData[n])}

\* the <<key, count>> pairs of a Counter or dict: the mapping without its order
Items(c) == {c[j] : j \in 1..Len(c)}

\* c2 is c1 with the count of key k raised by one
Bumped(c1, c2, k) ==
    /\ Keys(c2) = Keys(c1) \cup {k}
    /\ \A x \in Keys(c2) : Get(c2, x, 0) = Get(c1, x, 0) + (IF x = k THEN 1 ELSE 0)

\* the lines of f in the order p
Permuted(f, p) == [j \in 1..Len(f) |-> f[p[j]]]

\* the position in the log of the first failed login whose field (user or ip) is k
FirstSeen(field, k) ==
    LET at == {n \in 1..Len(log) :
                  /\ AuthData[log[n]] # None
                  /\ is_failed_login(AuthData[log[n]])
                  /\ Get(AuthData[log[n]], field, s_UNKNOWN) = k}
    IN CHOOSE n \in at : \A x \in at : n <= x

----------------------------------------------------------------------------
(* Claims *)

\* C1: in parse_log_file a non-blank line with fewer than six tokens, or with a
\* sixth token that is not an integer, is rejected without aborting the run:
\* the run never aborts, and when parsing has returned every well-formed line
\* of the file has become an entry.
C1_MalformedLinesTolerated ==
    /\ fw_pc # "aborted"
    /\ fw_pc \in {"parsed", "analyzed", "displayed", "done"}
           => Len(log_entries) = CountIn(lines, Len(lines), FwWellFormed)

\* C2: blank and whitespace-only lines are skipped and not counted as malformed:
\* removing them from the input leaves malformed_lines (auth) and the list of
\* parsed entries (firewall) unchanged.
C2_BlankLinesNotCounted ==
    /\ results # None
           => results[1].malformed_lines
                  = analyze_log_file(WithoutBlank(log, AuthBlank)).malformed_lines
    /\ fw_pc \in {"parsed", "analyzed", "displayed", "done"}
           => log_entries = parse_log_file(WithoutBlank(lines, FwBlank)).entries

\* C3: after any prefix of the auth log, and in the returned results,
\* total_failed + other_auth_events + malformed_lines = total_lines_seen, where
\* other_auth_events counts the lines read that parse and are not failed logins.
C3_AuthAccounting ==
    /\ total_failed + CountIn(log, pos, AuthOther) + malformed_lines = pos
    /\ results # None
           => results[1].total_failed + CountIn(log, Len(log), AuthOther)
                  + results[1].malformed_lines = Len(log)

\* C3 witness: a finished run that saw a failed login, another event and a
\* malformed line
C3_Witness ==
    /\ pc = "done"
    /\ results[1].total_failed > 0
    /\ results[1].malformed_lines > 0
    /\ CountIn(log, Len(log), AuthOther) > 0

\* C4: every non-blank line of the firewall log is accounted for, as a parsed
\* entry (counted in exactly one of ALLOW, DENY, OTHER) or as a counted
\* malformed line.  log_analyzer.py counts no malformed line anywhere (the
\* analysis has no such field), so its count of malformed lines is 0.
C4_FirewallAccounting ==
    fw_pc \in {"analyzed", "displayed", "done"} =>
        LET a == analysis[1]
            other == Cardinality({j \in 1..Len(log_entries) :
                         log_entries[j].action \notin {s_ALLOW, s_DENY}})
            counted_malformed == 0
        IN /\ a.total_entries = a.allow_count + a.deny_count + other
           /\ Len(lines) - CountIn(lines, Len(lines), FwBlank)
                  = a.total_entries + counted_malformed

\* C5: detect_brute_force(counter, threshold) returns exactly the keys of
\* counter whose count is >= threshold, each once and paired with its count in
\* counter (count = threshold is flagged, count = threshold - 1 is not, the keys
\* returned are keys of counter), and leaves counter unchanged.
C5_DetectExact ==
    [][flagged = None /\ flagged' # None =>
          LET f == flagged'[1]
          IN /\ Keys(f) = {k \in Keys(counter) : Get(counter, k, 0) >= threshold}
             /\ \A k \in Keys(f) : Get(f, k, 0) = Get(counter, k, 0)
             /\ Len(f) = Cardinality(Keys(f))
             /\ Keys(f) \subseteq Keys(counter)
             /\ \A k \in Keys(counter) :
                    /\ Get(counter, k, 0) = threshold => k \in Keys(f)
                    /\ Get(counter, k, 0) = threshold - 1 => k \notin Keys(f)
             /\ counter' = counter
      ]_vars

\* C5 witness: a call that flagged a key counted exactly threshold and left out
\* a key counted threshold - 1
C5_Witness ==
    /\ flagged # None
    /\ \E k1, k2 \in Keys(counter) :
           /\ Get(counter, k1, 0) = threshold
           /\ HasKey(flagged[1], k1)
           /\ Get(counter, k2, 0) = threshold - 1
           /\ ~HasKey(flagged[1], k2)

\* C6 as stated: five lines "LOGIN FAIL user=alice ip=10.0.0.5" give alice in
\* the flagged users with count 5, four such lines give flagged users without alice.
C6_ScenarioA_AsStated ==
    json_report # None =>
        /\ log = Repeat(8, 5)
               => Get(json_report[1].suspected_bruteforce_users, alice, 0) = 5
        /\ log = Repeat(8, 4)
               => ~HasKey(json_report[1].suspected_bruteforce_users, alice)

\* C6 amended: five lines "<date> <time> event=LOGIN status=FAIL user=alice
\* ip=10.0.0.5" give alice in the flagged users with count 5, four such lines
\* give flagged users without alice.
C6_ScenarioA_KeyValue ==
    json_report # None =>
        /\ log = Repeat(1, 5)
               => Get(json_report[1].suspected_bruteforce_users, alice, 0) = 5
        /\ log = Repeat(1, 4)
               => ~HasKey(json_report[1].suspected_bruteforce_users, alice)

\* C6 witness: the report of the five-line log flags alice
C6_Witness ==
    /\ pc = "done"
    /\ log = Repeat(1, 5)
    /\ HasKey(json_report[1].suspected_bruteforce_users, alice)

\* C7: analyze_logs returns allow_count = number of entries whose action is
\* exactly ALLOW, deny_count = number whose action is exactly DENY, and
\* denied_source_ips = the distinct source IPs of the DENY entries in ascending
\* order without duplicates; Scenario B gives 7, 3 and 2 denied IPs.
C7_AnalyzeCounts ==
    analysis # None =>
        LET a == analysis[1]
            ips == a.denied_source_ips
        IN /\ a.allow_count = Cardinality({j \in 1..Len(log_entries) :
                                  log_entries[j].action = s_ALLOW})
           /\ a.deny_count = Cardinality({j \in 1..Len(log_entries) :
                                 log_entries[j].action = s_DENY})
           /\ {ips[j] : j \in 1..Len(ips)}
                  = {log_entries[j].source_ip : j \in {n \in 1..Len(log_entries) :
                                                    log_entries[n].action = s_DENY}}
           /\ \A j \in 1..(Len(ips) - 1) : StrLess(ips[j], ips[j + 1])
           /\ lines = ScenarioB
                  => a.allow_count = 7 /\ a.deny_count = 3 /\ Len(ips) = 2

\* C7 witness: Scenario B analysed
C7_Witness ==
    /\ fw_pc = "done"
    /\ lines = ScenarioB
    /\ analysis[1].allow_count = 7

\* C8: a parsed line is a failed login if and only if its event field is
\* exactly "LOGIN" and its status field is exactly "FAIL"; reading such a line
\* adds one to total_failed, to its user's count and to its ip's count, and
\* reading any other parsed line changes no counter.
C8_OnlyLoginFailCounts ==
    [][(pc = "reading" /\ pos' = pos + 1 /\ AuthData[log[pos + 1]] # None) =>
          LET data == AuthData[log[pos + 1]]
              login_fail ==
                  /\ \E j \in 1..Len(data) : data[j] = <<s_event, s_LOGIN>>
                  /\ \E j \in 1..Len(data) : data[j] = <<s_status, s_FAIL>>
          IN IF login_fail
             THEN /\ total_failed' = total_failed + 1
                  /\ Bumped(failed_by_user, failed_by_user', Get(data, s_user, s_UNKNOWN))
                  /\ Bumped(failed_by_ip, failed_by_ip', Get(data, s_ip, s_UNKNOWN))
                  /\ malformed_lines' = malformed_lines
             ELSE UNCHANGED <<total_failed, failed_by_user, failed_by_ip, malformed_lines>>
      ]_vars

\* C8 witness: a failed login counted, then a login with status "fail" read
\* and not counted
C8_Witness ==
    /\ pc = "reading"
    /\ pos = 2
    /\ log[1] = 1
    /\ log[2] = 3
    /\ total_failed = 1
    /\ failed_by_user = <<<<alice, 1>>>>

JsonMappings ==
    {<<json_report[1].failures_by_user, s_user>>,
     <<json_report[1].failures_by_ip, s_ip>>,
     <<json_report[1].suspected_bruteforce_users, s_user>>,
     <<json_report[1].suspected_bruteforce_ips, s_ip>>}

C12_MissingLogNoReports ==
    (pc # "off" /\ ~log_exists) =>
        /\ pc \in {"start", "returned", "stopped"}
        /\ results = None
        /\ pos = 0
        /\ total_failed = 0
        /\ malformed_lines = 0
        /\ failed_by_user = <<>>
        /\ failed_by_ip = <<>>
        /\ json_report = None
        /\ text_report = None

\* C12 witness: main has stopped on a missing log file
C12_Witness ==
    /\ ~log_exists
    /\ pc = "stopped"
    /\ results = None

\* C13: when reading the input raises after k lines were read, the run still
\* ends with a report, and the report covers exactly those k lines (its
\* totals are the counters after the k lines; the claim also wants it marked
\* partial, a mark the report of generate_json_report has no field for).
C13_PartialReportOnReadError ==
    pc = "read_error" =>
        /\ json_report # None
        /\ text_report # None
        /\ json_report[1].summary.total_failed_logins = total_failed
        /\ json_report[1].summary.malformed_lines = malformed_lines
        /\ json_report[1].failures_by_user = failed_by_user
        /\ json_report[1].failures_by_ip = failed_by_ip
        /\ total_failed + malformed_lines <= pos

\* C14: a failure to write one of the two sinks is surfaced as a degraded
\* outcome of a run that still completes: main is not ended by the exception
\* of the failed write (so the other sink is still attempted and the caller
\* is told which sink failed), and the results computed in memory are the
\* counters of the analysis, unchanged by the report steps.
C14_SinkFailureDegraded ==
    /\ pc # "json_error"
    /\ pc # "text_error"
    /\ (pc \in {"json_written", "done"} =>
           results = <<[total_failed |-> total_failed,
                        failed_by_user |-> failed_by_user,
                        failed_by_ip |-> failed_by_ip,
                        malformed_lines |-> malformed_lines]>>)

\* C15: the text report and the JSON report of one run agree on every number:
\* the total of failed logins, the malformed line count, the count of every
\* user key and of every IP key; and the threshold printed in the text report
\* is the one that selects the flagged mappings of the JSON report.
C15_ReportsAgree ==
    text_report # None =>
        /\ json_report # None
        /\ text_report[1].total_failed = json_report[1].summary.total_failed_logins
        /\ text_report[1].malformed_lines = json_report[1].summary.malformed_lines
        /\ Items(text_report[1].users) = Items(json_report[1].failures_by_user)
        /\ Len(text_report[1].users) = Len(json_report[1].failures_by_user)
        /\ Items(text_report[1].ips) = Items(json_report[1].failures_by_ip)
        /\ Len(text_report[1].ips) = Len(json_report[1].failures_by_ip)
        /\ Items(json_report[1].suspected_bruteforce_users) =
               {i \in Items(json_report[1].failures_by_user) :
                    i[2] >= text_report[1].threshold}
        /\ Items(json_report[1].suspected_bruteforce_ips) =
               {i \in Items(json_report[1].failures_by_ip) :
                    i[2] >= text_report[1].threshold}

\* C15 witnesses: both reports written for a log with failed logins of two
\* users and a different number of malformed lines, and for a log with a
\* flagged user
C15_Witness ==
    /\ text_report # None
    /\ \/ /\ Len(text_report[1].users) = 2
          /\ text_report[1].malformed_lines = 1
          /\ text_report[1].total_failed = 3
       \/ /\ json_report[1].suspected_bruteforce_users # <<>>
          /\ Len(text_report[1].users) = 2

\* Number of whitespace-delimited tokens of a text: the starts of its maximal
\* runs of non-whitespace characters
TokenCount(s) ==
    Cardinality({j \in 1..Len(s) : ~IsSpace(s[j]) /\ (j = 1 \/ IsSpace(s[j - 1]))})

\* The tokens of every line text (evaluated once)
AuthTokens == [n \in DOMAIN AuthLines |-> Split(AuthLines[n])]

\* The line texts with fewer than two tokens
AuthFewTokens == {n \in DOMAIN AuthLines : TokenCount(AuthLines[n]) < 2}

\* The key=value grammar on line text n: with two tokens or more the line
\* parses, its first two tokens joined by a space are the timestamp, every
\* later token holding "=" is a field split at its first "=", and a later
\* token without "=" adds nothing
KeyValueGrammar(n) ==
    LET toks == AuthTokens[n]
        data == AuthData[n]
        pairs == {j \in 3..Len(toks) : HasEq(toks[j])}
    IN /\ data # None
       /\ data[1] = <<s_timestamp, toks[1] \o <<32>> \o toks[2]>>
       /\ Len(data) = 1 + Cardinality(pairs)
       /\ \A j \in pairs :
              \E i \in 2..Len(data) :
                  /\ data[i][1] \o <<61>> \o data[i][2] = toks[j]
                  /\ ~HasEq(data[i][1])

\* The line texts that parse by the key=value grammar
AuthGrammatical == {n \in DOMAIN AuthLines : KeyValueGrammar(n)}

\* C16: a non-blank line is malformed exactly when it has fewer than two
\* whitespace-delimited tokens; otherwise it parses by the key=value grammar,
\* a token without "=" being skipped without invalidating the line. Hence
\* after any number of lines read from a stream of N valid and M malformed
\* lines (no blank ones), malformed_lines is the number of malformed lines
\* read and the others are parsed events; a malformed line never stops the
\* run: the next line can be read, and at the end the results are returned.
C16_MalformedIffFewTokens ==
    pc \in {"reading", "returned", "json_written", "done"} /\ log_exists =>
        /\ \A j \in 1..pos :
               log[j] \notin AuthBlank =>
                   IF log[j] \in AuthFewTokens
                   THEN AuthData[log[j]] = None
                   ELSE log[j] \in AuthGrammatical
        /\ (\A j \in 1..pos : log[j] \notin AuthBlank) =>
               /\ malformed_lines =
                      Cardinality({j \in 1..pos : log[j] \in AuthFewTokens})
               /\ pos - malformed_lines =
                      Cardinality({j \in 1..pos : AuthData[log[j]] # None})
        /\ (pc = "reading" /\ pos < Len(log)) => ENABLED ReadLine
        /\ (pc = "reading" /\ pos = Len(log)) => ENABLED ReturnResults

\* C16 witness: the results of a log without blank lines holding a malformed
\* line and a line with a token without "="
C16_Witness ==
    /\ results # None
    /\ \A j \in 1..Len(log) : log[j] \notin AuthBlank
    /\ \E j \in 1..Len(log) : log[j] \in AuthFewTokens
    /\ \E j \in 1..Len(log) :
           \E t \in 3..Len(AuthTokens[log[j]]) : ~HasEq(AuthTokens[log[j]][t])
    /\ results[1].malformed_lines = 1
    /\ results[1].total_failed = 1

\* C17: a run goes through its phases once, in order, and never back: every
\* line of the input is parsed and aggregated before the detection and report
\* step starts; the JSON report is written before the text report; each
\* report (and the firewall analysis and its JSON file) is written at most
\* once; and once a report step has run, no line is parsed and no counter
\* changes.
C17_PhasesInOrder ==
    [][LET rank(p) == CASE p = "off" -> 0
                        [] p = "start" -> 1
                        [] p \in {"reading", "parsing"} -> 2
                        [] p \in {"returned", "parsed"} -> 3
                        [] p \in {"json_written", "analyzed"} -> 4
                        [] p = "displayed" -> 5
                        [] OTHER -> 6
       IN /\ rank(pc') >= rank(pc)
          /\ rank(fw_pc') >= rank(fw_pc)
          /\ json_report' # json_report =>
                 /\ json_report = None /\ text_report = None
                 /\ results # None /\ pos = Len(log)
                 /\ UNCHANGED text_report
          /\ text_report' # text_report =>
                 /\ text_report = None
                 /\ json_report # None
                 /\ UNCHANGED json_report
          /\ results # None =>
                 UNCHANGED <<pos, total_failed, malformed_lines, failed_by_user,
                             failed_by_ip, results>>
          /\ analysis' # analysis =>
                 /\ analysis = None /\ fw_json = None
                 /\ fw_pos = Len(lines)
                 /\ UNCHANGED fw_json
          /\ fw_json' # fw_json =>
                 /\ fw_json = None
                 /\ analysis # None
          /\ analysis # None => UNCHANGED <<fw_pos, log_entries, analysis>>
      ]_vars

\* C17 witnesses: both reports of a log of several lines written, and the
\* firewall report of a log of several lines written
C17_Witness ==
    \/ /\ pc = "done"
       /\ pos = Len(log) /\ pos >= 2
       /\ json_report # None /\ text_report # None
    \/ /\ fw_pc = "done"
       /\ fw_pos = Len(lines) /\ fw_pos >= 2
       /\ fw_json # None

\* The "date time" of every firewall line text: its first two tokens joined
\* by a space (evaluated once; the empty string for a text without two tokens)
FwStamp ==
    [n \in DOMAIN FwLines |->
        LET toks == Split(FwLines[n])
        IN IF Len(toks) >= 2 THEN toks[1] \o <<32>> \o toks[2] ELSE <<>>]

\* C18: the time range of the firewall analysis follows the order of the
\* input, not the clock: its first value is the "date time" of the first
\* parsed line of the file and its last value that of the last parsed line;
\* both are "N/A" when no line parsed, and they are equal when exactly one did.
C18_TimeRangeByEncounter ==
    analysis # None =>
        LET parsed == {j \in 1..Len(lines) : lines[j] \in FwWellFormed}
            range == analysis[1].time_range
        IN IF parsed = {}
           THEN range.first = s_NA /\ range.last = s_NA
           ELSE /\ \E j \in parsed :
                       /\ \A x \in parsed : j <= x
                       /\ range.first = FwStamp[lines[j]]
                /\ \E j \in parsed :
                       /\ \A x \in parsed : j >= x
                       /\ range.last = FwStamp[lines[j]]
                /\ Cardinality(parsed) = 1 => range.first = range.last

\* C18 witness: an analysis whose first timestamp is later than its last one
\* (the file's last parsed line is of the day before)
C18_Witness ==
    /\ analysis # None
    /\ Len(log_entries) >= 2
    /\ StrLess(analysis[1].time_range.last, analysis[1].time_range.first)

\* The sum of the counts of a Counter
SumCounts(c) ==
    LET RECURSIVE sum(_)
        sum(j) == IF j > Len(c) THEN 0 ELSE c[j][2] + sum(j + 1)
    IN sum(1)

\* C19: after any prefix of the lines read by analyze_log_file, total_failed,
\* malformed_lines and every per-user and per-IP count are non-negative and
\* have only increased, each by 0 or 1 per line; the per-user counts and the
\* per-IP counts each sum to total_failed; and a failed login without a user
\* (or ip) field is counted under "UNKNOWN".
C19_CountersMonotone ==
    [][/\ total_failed' - total_failed \in {0, 1}
       /\ malformed_lines' - malformed_lines \in {0, 1}
       /\ \A k \in Keys(failed_by_user) \cup Keys(failed_by_user') :
              Get(failed_by_user', k, 0) - Get(failed_by_user, k, 0) \in {0, 1}
       /\ \A k \in Keys(failed_by_ip) \cup Keys(failed_by_ip') :
              Get(failed_by_ip', k, 0) - Get(failed_by_ip, k, 0) \in {0, 1}
       /\ total_failed' >= 0 /\ malformed_lines' >= 0
       /\ \A j \in 1..Len(failed_by_user') : failed_by_user'[j][2] >= 0
       /\ \A j \in 1..Len(failed_by_ip') : failed_by_ip'[j][2] >= 0
       /\ SumCounts(failed_by_user') = total_failed'
       /\ SumCounts(failed_by_ip') = total_failed'
       /\ (pos' = pos + 1 /\ total_failed' = total_failed + 1) =>
              LET toks == AuthTokens[log[pos + 1]]
                  has(field) ==
                      \E t \in 3..Len(toks) :
                          /\ Len(toks[t]) > Len(field)
                          /\ SubSeq(toks[t], 1, Len(field) + 1) = field \o <<61>>
              IN /\ ~has(s_user) =>
                     Get(failed_by_user', s_UNKNOWN, 0) =
                         Get(failed_by_user, s_UNKNOWN, 0) + 1
                 /\ ~has(s_ip) =>
                     Get(failed_by_ip', s_UNKNOWN, 0) =
                         Get(failed_by_ip, s_UNKNOWN, 0) + 1
      ]_vars

\* C19 witness: after three lines read, two failed logins of alice and one
\* without user and ip
C19_Witness ==
    /\ pc = "reading"
    /\ pos = 3
    /\ total_failed = 3
    /\ Get(failed_by_user, alice, 0) = 2
    /\ Get(failed_by_user, s_UNKNOWN, 0) = 1
    /\ Get(failed_by_ip, s_UNKNOWN, 0) = 1

\* C20: most_targeted_port is a port with the largest number of DENY entries
\* and most_targeted_count is that number, at most deny_count; among ports of
\* equal largest number it is the one whose first DENY entry comes earliest
\* in the input; with no DENY entry the port is None and the count 0.
C20_MostTargetedPort ==
    analysis # None =>
        LET deny == {j \in 1..Len(log_entries) : log_entries[j].action = s_DENY}
            ports == {log_entries[j].port : j \in deny}
            of(p) == {j \in deny : log_entries[j].port = p}
            first(p) == CHOOSE j \in of(p) : \A x \in of(p) : j <= x
        IN IF deny = {}
           THEN /\ analysis[1].most_targeted_port = None
                /\ analysis[1].most_targeted_count = 0
           ELSE \E p \in ports :
                    /\ analysis[1].most_targeted_port = <<p>>
                    /\ analysis[1].most_targeted_count = Cardinality(of(p))
                    /\ analysis[1].most_targeted_count <= analysis[1].deny_count
                    /\ \A q \in ports \ {p} :
                           \/ Cardinality(of(q)) < Cardinality(of(p))
                           \/ /\ Cardinality(of(q)) = Cardinality(of(p))
                              /\ first(p) < first(q)

\* C20 witness: ports 443 and 22 denied equally often, 443 first: 443 is
\* reported, and 22 is reported for the same entries in reverse order
C20_Witness ==
    /\ analysis # None
    /\ analysis[1].most_targeted_port = <<443>>
    /\ analysis[1].most_targeted_count >= 1
    /\ analysis[1].deny_count = 2 * analysis[1].most_targeted_count
    /\ LET n == Len(log_entries)
           reversed == [j \in 1..n |-> log_entries[n + 1 - j]]
       IN /\ analyze_logs(reversed).most_targeted_port = <<22>>
          /\ analyze_logs(reversed).most_targeted_count = analysis[1].most_targeted_count

====
